---- MODULE Spec2Model ----
(***************************************************************************)
(* Alumni record store of the alumni-data backend: the routes              *)
(* GET /api/alumni, POST /api/alumni, PUT /api/alumni/:id and              *)
(* DELETE /api/alumni/:id of src/routes/alumni.js over the Alumni          *)
(* collection of src/models/alumni.js behind the middleware of             *)
(* src/middleware/auth.js.                                                 *)
(*                                                                         *)
(* Every request is a little process: it is received, runs the middleware  *)
(* chain, and then its handler, which is cut at every await on the         *)
(* database.  A database operation is atomic; the handler code between two *)
(* awaits only touches the request's own locals and is folded into the     *)
(* step of the operation that precedes it.                                 *)
(***************************************************************************)
EXTENDS Integers, FiniteSets, Sequences, TLC

\* Number of request slots of the concurrent specifications.
MaxRequests == 3
\* Number of requests of the one-at-a-time specification.
MaxSeqRequests == 2
\* The last millisecond the clock reaches.
MaxClock == 3

Slots == 1..MaxRequests

VARIABLES
  Alumni,    \* the Alumni collection: a set of documents
  nextId,    \* the next _id the store assigns
  uploads,   \* the URLs held by the file storage
  req,       \* the requests that write, by slot
  list,      \* the GET /api/alumni request being served
  now        \* the clock that Date.now() reads

vars == <<Alumni, nextId, uploads, req, list, now>>

-----------------------------------------------------------------------------
(* JavaScript values *)

Absent == "<undefined>"
Null == "<null>"

\* A value that counts as false in a || chain or an if.
Falsy(v) == v \in {Absent, Null, ""}

\* a ?? b: only a value that is missing or null gives way.
Coalesce(a, b) == IF a \in {Absent, Null} THEN b ELSE a

\* a || b
Or(a, b) == IF Falsy(a) THEN b ELSE a

HSST == "Himalayan School of Science and Technology"

\* An academicUnit taken from the body when it names one.
AcademicUnitFromBody(body) == IF Falsy(body.academicUnit) THEN HSST ELSE body.academicUnit

\* academicUnit: "Himalayan School of Science and Technology", the value
\* newAlumni and updateFields give the field whatever the body holds.
AcademicUnit(body) == HSST

\* A Date path that is not set.
NoDate == 0

\* A Date.now() that reads no clock.
DateUnset == NoDate

\* Date.now()
DateNow == now

EmploymentTypes == {"Employed", "Self-employed", "Unemployed", "Studying", ""}

-----------------------------------------------------------------------------
(* The schema's nested objects.  A sub-field that the object does not      *)
(* carry is Absent.                                                        *)

EmptyContact == [email |-> Absent, phone |-> Absent, address |-> Absent]
EmptyExams == [examName |-> Absent, rollNumber |-> Absent, certificateUrl |-> Absent]
EmptyEmployment ==
  [type |-> Absent, employerName |-> Absent, employerContact |-> Absent,
   employerEmail |-> Absent, documentUrl |-> Absent, selfEmploymentDetails |-> Absent]
EmptyHigherEd == [institutionName |-> Absent, programName |-> Absent, documentUrl |-> Absent]

\* The result of a find that matches nothing.
NoDoc == [_id |-> 0]

\* A nested field of a request body: not sent, sent as an object, or sent
\* as a string that is JSON or is not.
NotSent(empty) == [form |-> "absent", obj |-> empty]
AsObject(o) == [form |-> "object", obj |-> o]
AsJson(o) == [form |-> "json", obj |-> o]
BadJson(empty) == [form |-> "badjson", obj |-> empty]

\* A parse whose catch does not put an empty object in place of the string.
ParseNestedUnparsed(v, empty) ==
  CASE v.form = "absent"  -> [present |-> FALSE, obj |-> empty]
    [] v.form = "badjson" -> [present |-> TRUE, obj |-> [f \in DOMAIN empty |-> "<unparsed>"]]
    [] OTHER              -> [present |-> TRUE, obj |-> v.obj]

\* if (typeof x === "string") { try { x = JSON.parse(x) } catch (e) { x = {} } }
\* The result is undefined (present = FALSE) or an object.
ParseNested(v, empty) ==
  CASE v.form = "absent"  -> [present |-> FALSE, obj |-> empty]
    [] v.form = "object"  -> [present |-> TRUE, obj |-> v.obj]
    [] v.form = "json"    -> [present |-> TRUE, obj |-> v.obj]
    [] v.form = "badjson" -> [present |-> TRUE, obj |-> empty]

\* x || other, for a parsed nested field (an object is never falsy)
OrObj(p, other) == IF p.present THEN p.obj ELSE other

\* x?.field
Opt(p, field) == IF p.present THEN p.obj[field] ELSE Absent

-----------------------------------------------------------------------------
(* File uploads *)

FileFields == {"basicInfoImage", "qualificationImage", "employmentImage"}

\* The path the file storage returns for an uploaded file.
FilePath(f) ==
  CASE f = "basicInfoImage"     -> "cloud/basicInfoImage"
    [] f = "qualificationImage" -> "cloud/qualificationImage"
    [] f = "employmentImage"    -> "cloud/employmentImage"

\* req.files?.f ? req.files.f[0].path : null
FileUrl(files, f) == IF f \in files THEN FilePath(f) ELSE Null

-----------------------------------------------------------------------------
(* Middleware *)

NoToken == [fmt |-> "none", id |-> Absent, role |-> Absent]
\* A token that jwt.verify rejects: malformed or wrongly signed, or expired.
BadToken == [fmt |-> "bad", id |-> Absent, role |-> Absent]
ExpiredToken == [fmt |-> "expired", id |-> Absent, role |-> Absent]
\* { id, email, role }, as signed by generateToken
FlatToken(id, role) == [fmt |-> "flat", id |-> id, role |-> role]
\* { user: { id, role } }
NestedToken(id, role) == [fmt |-> "nested", id |-> id, role |-> role]

NoUser == [id |-> Absent, role |-> Absent]

\* A protect that lets every request through, as an admin.
ProtectAnyone(token) == [id |-> "anonymous", role |-> "admin"]

\* protect: the user it sets on the request, or NoUser when it refuses.
\* A token with a top-level id yields { id: decoded.id } and nothing else.
ProtectUser(token) ==
  CASE token.fmt = "flat" /\ ~Falsy(token.id)   -> [id |-> token.id, role |-> Absent]
    [] token.fmt = "nested" /\ ~Falsy(token.id) -> [id |-> token.id, role |-> token.role]
    [] OTHER -> NoUser

ProtectMessage(token) ==
  CASE token.fmt = "none" -> "No token, authorization denied"
    [] token.fmt = "bad"  -> "Invalid token"
    [] token.fmt = "expired" -> "Token has expired"
    [] OTHER              -> "Token is not valid"

\* An admin check that only asks for a user.
IsAnyUser(user) == user # NoUser

\* admin: req.user && req.user.role === "admin"
IsAdmin(user) == user # NoUser /\ user.role = "admin"

\* Checks that only catch a field that was not sent.
ValidationErrorsMissingOnly(body) ==
  {f \in {"name", "program", "passingYear", "registrationNumber"} : body[f] = Absent}

\* The express-validator checks of POST /: the fields that fail not().isEmpty().
ValidationErrors(body) ==
  {f \in {"name", "program", "passingYear", "registrationNumber"} : body[f] \in {Absent, ""}}

-----------------------------------------------------------------------------
(* The documents the handlers build *)

\* new Alumni({...}) of POST /; createdAt is the schema's default, Date.now
\* at the time the document is built.
NewAlumni(body, files, user, id, createdAt) ==
  LET contactDetails == ParseNested(body.contactDetails, EmptyContact)
      qualifiedExams == ParseNested(body.qualifiedExams, EmptyExams)
      employment == ParseNested(body.employment, EmptyEmployment)
      higherEducation == ParseNested(body.higherEducation, EmptyHigherEd)
  IN [_id |-> id,
      name |-> body.name,
      academicUnit |-> AcademicUnit(body),
      program |-> body.program,
      passingYear |-> body.passingYear,
      registrationNumber |-> body.registrationNumber,
      contactDetails |-> OrObj(contactDetails, EmptyContact),
      qualifiedExams |->
        [OrObj(qualifiedExams, EmptyExams) EXCEPT
          !.certificateUrl =
            Or(Or(FileUrl(files, "qualificationImage"), Opt(qualifiedExams, "certificateUrl")), "")],
      employment |->
        [OrObj(employment, EmptyEmployment) EXCEPT
          !.documentUrl =
            Or(Or(FileUrl(files, "employmentImage"), Opt(employment, "documentUrl")), "")],
      higherEducation |->
        [OrObj(higherEducation, EmptyHigherEd) EXCEPT
          !.documentUrl =
            Or(Or(FileUrl(files, "basicInfoImage"), Opt(higherEducation, "documentUrl")), "")],
      basicInfoImageUrl |-> FileUrl(files, "basicInfoImage"),
      createdBy |-> user.id,
      createdAt |-> createdAt,
      updatedAt |-> NoDate]

\* updateFields of PUT /:id, from the body, the uploaded files, the
\* document findById returned (alumni) and Date.now().
UpdateFields(body, files, alumni, updatedAt) ==
  LET contactDetails == ParseNested(body.contactDetails, EmptyContact)
      qualifiedExams == ParseNested(body.qualifiedExams, EmptyExams)
      employment == ParseNested(body.employment, EmptyEmployment)
      higherEducation == ParseNested(body.higherEducation, EmptyHigherEd)
  IN [name |-> Or(body.name, alumni.name),
      academicUnit |-> AcademicUnit(body),
      program |-> Or(body.program, alumni.program),
      passingYear |-> Or(body.passingYear, alumni.passingYear),
      registrationNumber |-> Or(body.registrationNumber, alumni.registrationNumber),
      contactDetails |-> OrObj(contactDetails, alumni.contactDetails),
      qualifiedExams |->
        [OrObj(qualifiedExams, alumni.qualifiedExams) EXCEPT
          !.certificateUrl =
            Or(Or(Or(FileUrl(files, "qualificationImage"), Opt(qualifiedExams, "certificateUrl")),
                  alumni.qualifiedExams.certificateUrl), "")],
      employment |->
        [OrObj(employment, alumni.employment) EXCEPT
          !.documentUrl =
            Or(Or(Or(FileUrl(files, "employmentImage"), Opt(employment, "documentUrl")),
                  alumni.employment.documentUrl), "")],
      higherEducation |->
        [OrObj(higherEducation, alumni.higherEducation) EXCEPT
          !.documentUrl =
            Or(Or(Or(FileUrl(files, "basicInfoImage"), Opt(higherEducation, "documentUrl")),
                  alumni.higherEducation.documentUrl), "")],
      basicInfoImageUrl |-> Or(FileUrl(files, "basicInfoImage"), alumni.basicInfoImageUrl),
      updatedAt |-> updatedAt]

-----------------------------------------------------------------------------
(* The Alumni collection *)

\* A find that does not filter on the _id.
FindFirst(coll, id) ==
  IF coll # {} THEN CHOOSE d \in coll : TRUE ELSE NoDoc

\* Alumni.findById(id)
FindById(coll, id) ==
  IF \E d \in coll : d._id = id THEN CHOOSE d \in coll : d._id = id ELSE NoDoc

\* Alumni.findOne({ registrationNumber }) finds a document.
FindOneFound(coll, registrationNumber) ==
  \E d \in coll : d.registrationNumber = registrationNumber

\* A collection whose index on registrationNumber is not unique: no
\* insert is turned down.
InsertWithoutIndex(coll, reg) == FALSE

\* The unique index on registrationNumber rejects the insert of a document
\* with the registration number reg.
DuplicateKeyOnInsert(coll, reg) ==
  \E d \in coll : d.registrationNumber = reg

\* The same collection, for updates: none is turned down.
UpdateWithoutIndex(coll, id, reg) == FALSE

\* The unique index rejects an update that gives the document with _id id
\* the registration number reg.
DuplicateKeyOnUpdate(coll, id, reg) ==
  \E d \in coll : d._id # id /\ d.registrationNumber = reg

\* The schema validation of save(): the required paths and the enum of
\* employment.type.
SchemaInvalid(doc) ==
  \/ \E f \in {"name", "academicUnit", "program", "passingYear", "registrationNumber"} :
        doc[f] \in {Absent, Null, ""}
  \/ doc.employment.type \notin EmploymentTypes \cup {Absent}

\* An update that replaces the document by updateFields, keeping the _id.
ReplaceDocument(d, u) ==
  [f \in DOMAIN d |->
     IF f \in DOMAIN u THEN u[f]
     ELSE IF f = "_id" THEN d._id
     ELSE IF f = "createdAt" THEN u.updatedAt
     ELSE Absent]

\* findByIdAndUpdate(id, updateFields): every path of updateFields is set,
\* a nested object as a whole; _id, createdBy and createdAt are not among
\* them.
ApplyUpdate(d, u) ==
  [d EXCEPT !.name = u.name, !.academicUnit = u.academicUnit, !.program = u.program,
            !.passingYear = u.passingYear, !.registrationNumber = u.registrationNumber,
            !.contactDetails = u.contactDetails, !.qualifiedExams = u.qualifiedExams,
            !.employment = u.employment, !.higherEducation = u.higherEducation,
            !.basicInfoImageUrl = u.basicInfoImageUrl, !.updatedAt = u.updatedAt]

-----------------------------------------------------------------------------
(* Requests *)

EmptyBody ==
  [name |-> Absent, academicUnit |-> Absent, program |-> Absent, passingYear |-> Absent,
   registrationNumber |-> Absent, createdBy |-> Absent,
   contactDetails |-> NotSent(EmptyContact), qualifiedExams |-> NotSent(EmptyExams),
   employment |-> NotSent(EmptyEmployment), higherEducation |-> NotSent(EmptyHigherEd)]

\* res.status(status).json({ message, errors } or data); detail is the
\* error.message appended to the message of a 500.
Res(status, message, detail, errors, data) ==
  [status |-> status, message |-> message, detail |-> detail, errors |-> errors, data |-> data]

NoRes == Res(0, "", "", {}, NoDoc)

IdleReq ==
  [pc |-> "idle", kind |-> "none", token |-> NoToken, id |-> 0, body |-> EmptyBody,
   files |-> {}, user |-> NoUser, reqFiles |-> {}, alumni |-> NoDoc, stamp |-> 0,
   res |-> NoRes]

\* What the client sends: route, Authorization header, :id, body, file parts.
Input(kind, token, id, body, files) ==
  [kind |-> kind, token |-> token, id |-> id, body |-> body, files |-> files]

\* The response is sent: the handler's locals are gone, what the client
\* sent and what it received remain.
Respond(r, res) ==
  [r EXCEPT !.pc = "done", !.user = NoUser, !.reqFiles = {}, !.alumni = NoDoc, !.stamp = 0,
            !.res = res]

InFlight(q) == req[q].pc \notin {"idle", "done"}

\* A string that is no ObjectId makes findById throw a CastError.
IsObjectId(id) == id # 0

\* The middleware chain of a route, up to the handler's first await:
\* protect, then admin (DELETE), or uploadFiles (POST, PUT) and the
\* validators (POST).  Yields the request after it and the files stored.
Middleware(in) ==
  LET user == ProtectUser(in.token)
      r0 == [IdleReq EXCEPT !.kind = in.kind, !.token = in.token, !.id = in.id,
                            !.body = in.body, !.files = in.files]
      r1 == [r0 EXCEPT !.user = user]
      r2 == [r1 EXCEPT !.reqFiles = in.files]
      stored == {FilePath(f) : f \in in.files}
  IN CASE user = NoUser ->
            [r |-> Respond(r0, Res(401, ProtectMessage(in.token), "", {}, NoDoc)), stored |-> {}]
       [] user # NoUser /\ in.kind = "delete" ->
            IF IsAdmin(user)
            THEN [r |-> [r1 EXCEPT !.pc = "d_findById"], stored |-> {}]
            ELSE [r |-> Respond(r1, Res(401, "Not authorized as an admin", "", {}, NoDoc)),
                  stored |-> {}]
       [] user # NoUser /\ in.kind = "update" ->
            [r |-> [r2 EXCEPT !.pc = "u_findById"], stored |-> stored]
       [] user # NoUser /\ in.kind = "create" ->
            IF ValidationErrors(in.body) # {}
            THEN [r |-> Respond(r2, Res(400, "", "", ValidationErrors(in.body), NoDoc)),
                  stored |-> stored]
            ELSE [r |-> [r2 EXCEPT !.pc = "c_findOne"], stored |-> stored]

\* A chain whose uploadFiles stores nothing.
ReceiveWithoutUpload(q, in) ==
  /\ req[q].pc = "idle"
  /\ \A p \in Slots : p < q => req[p].pc # "idle"
  /\ req' = [req EXCEPT ![q] = Middleware(in).r]
  /\ UNCHANGED <<Alumni, nextId, uploads, list, now>>

\* Slot q receives the request in and runs its middleware.
Receive(q, in) ==
  /\ req[q].pc = "idle"
  /\ \A p \in Slots : p < q => req[p].pc # "idle"
  /\ LET m == Middleware(in)
     IN /\ req' = [req EXCEPT ![q] = m.r]
        /\ uploads' = uploads \cup m.stored
  /\ UNCHANGED <<Alumni, nextId, list, now>>

-----------------------------------------------------------------------------
(* POST /api/alumni *)

\* A create that goes to save() without looking at what findOne returned.
CreateIgnoringFindOne(q) ==
  /\ req[q].pc = "c_findOne"
  /\ req' = [req EXCEPT ![q] = [@ EXCEPT !.pc = "c_save", !.stamp = DateNow]]
  /\ UNCHANGED <<Alumni, nextId, uploads, list, now>>

\* await Alumni.findOne({ registrationNumber: req.body.registrationNumber }),
\* and new Alumni({...}) when it finds nothing
CreateFindOne(q) ==
  /\ req[q].pc = "c_findOne"
  /\ req' = [req EXCEPT ![q] =
        IF FindOneFound(Alumni, req[q].body.registrationNumber)
        THEN Respond(@, Res(400, "Alumni with this registration number already exists",
                            "", {}, NoDoc))
        ELSE [@ EXCEPT !.pc = "c_save", !.stamp = DateNow]]
  /\ UNCHANGED <<Alumni, nextId, uploads, list, now>>

\* await newAlumni.save(), and the catch around it
CreateSave(q) ==
  /\ req[q].pc = "c_save"
  /\ LET doc == NewAlumni(req[q].body, req[q].reqFiles, req[q].user, nextId, req[q].stamp)
     IN CASE SchemaInvalid(doc) ->
               /\ req' = [req EXCEPT ![q] =
                     Respond(@, Res(500, "Failed to create alumni: ", "ValidationError", {}, NoDoc))]
               /\ UNCHANGED <<Alumni, nextId>>
          [] ~SchemaInvalid(doc) /\ DuplicateKeyOnInsert(Alumni, doc.registrationNumber) ->
               /\ req' = [req EXCEPT ![q] =
                     Respond(@, Res(500, "Failed to create alumni: ", "E11000 duplicate key error",
                                    {}, NoDoc))]
               /\ UNCHANGED <<Alumni, nextId>>
          [] OTHER ->
               /\ Alumni' = Alumni \cup {doc}
               /\ nextId' = nextId + 1
               /\ req' = [req EXCEPT ![q] = Respond(@, Res(200, "", "", {}, doc))]
  /\ UNCHANGED <<uploads, list, now>>

-----------------------------------------------------------------------------
(* PUT /api/alumni/:id *)

\* An update that looks every registration number it is sent up, the
\* target's own too.
UpdateAlwaysFindOne(q) ==
  /\ req[q].pc = "u_findById"
  /\ LET alumni == FindById(Alumni, req[q].id)
         reg == req[q].body.registrationNumber
     IN req' = [req EXCEPT ![q] =
          IF ~IsObjectId(req[q].id) \/ alumni = NoDoc
          THEN Respond(@, Res(404, "Alumni not found", "", {}, NoDoc))
          ELSE IF ~Falsy(reg)
               THEN [@ EXCEPT !.pc = "u_findOne", !.alumni = alumni]
               ELSE [@ EXCEPT !.pc = "u_update", !.alumni = alumni, !.stamp = DateNow]]
  /\ UNCHANGED <<Alumni, nextId, uploads, list, now>>

\* let alumni = await Alumni.findById(req.params.id), then the test that
\* decides whether the registration number is looked up, and updateFields
\* when it is not
UpdateFindById(q) ==
  /\ req[q].pc = "u_findById"
  /\ LET alumni == FindById(Alumni, req[q].id)
         reg == req[q].body.registrationNumber
     IN req' = [req EXCEPT ![q] =
          IF ~IsObjectId(req[q].id) \/ alumni = NoDoc
          THEN Respond(@, Res(404, "Alumni not found", "", {}, NoDoc))
          ELSE IF ~Falsy(reg) /\ reg # alumni.registrationNumber
               THEN [@ EXCEPT !.pc = "u_findOne", !.alumni = alumni]
               ELSE [@ EXCEPT !.pc = "u_update", !.alumni = alumni, !.stamp = DateNow]]
  /\ UNCHANGED <<Alumni, nextId, uploads, list, now>>

\* An update that goes on to the write without looking at what findOne returned.
UpdateIgnoringFindOne(q) ==
  /\ req[q].pc = "u_findOne"
  /\ req' = [req EXCEPT ![q] = [@ EXCEPT !.pc = "u_update", !.stamp = DateNow]]
  /\ UNCHANGED <<Alumni, nextId, uploads, list, now>>

\* await Alumni.findOne({ registrationNumber: req.body.registrationNumber }),
\* and updateFields when it finds nothing
UpdateFindOne(q) ==
  /\ req[q].pc = "u_findOne"
  /\ req' = [req EXCEPT ![q] =
        IF FindOneFound(Alumni, req[q].body.registrationNumber)
        THEN Respond(@, Res(400, "Alumni with this registration number already exists",
                            "", {}, NoDoc))
        ELSE [@ EXCEPT !.pc = "u_update", !.stamp = DateNow]]
  /\ UNCHANGED <<Alumni, nextId, uploads, list, now>>

\* alumni = await Alumni.findByIdAndUpdate(req.params.id, updateFields, { new: true }),
\* res.json(alumni), and the catch around them
UpdateWrite(q) ==
  /\ req[q].pc = "u_update"
  /\ LET updateFields == UpdateFields(req[q].body, req[q].reqFiles, req[q].alumni, req[q].stamp)
         stored == FindById(Alumni, req[q].id)
     IN CASE stored = NoDoc ->
               /\ req' = [req EXCEPT ![q] = Respond(@, Res(200, "", "", {}, NoDoc))]
               /\ UNCHANGED Alumni
          [] stored # NoDoc /\ DuplicateKeyOnUpdate(Alumni, req[q].id, updateFields.registrationNumber) ->
               /\ req' = [req EXCEPT ![q] =
                     Respond(@, Res(500, "Server error: ", "E11000 duplicate key error", {}, NoDoc))]
               /\ UNCHANGED Alumni
          [] OTHER ->
               LET doc == ApplyUpdate(stored, updateFields)
               IN /\ Alumni' = (Alumni \ {stored}) \cup {doc}
                  /\ req' = [req EXCEPT ![q] = Respond(@, Res(200, "", "", {}, doc))]
  /\ UNCHANGED <<nextId, uploads, list, now>>

-----------------------------------------------------------------------------
(* DELETE /api/alumni/:id *)

\* A delete that goes on to deleteOne without looking at what findById
\* returned.
DeleteIgnoringFindById(q) ==
  /\ req[q].pc = "d_findById"
  /\ req' = [req EXCEPT ![q].pc = "d_deleteOne"]
  /\ UNCHANGED <<Alumni, nextId, uploads, list, now>>

\* const alumni = await Alumni.findById(req.params.id)
DeleteFindById(q) ==
  /\ req[q].pc = "d_findById"
  /\ req' = [req EXCEPT ![q] =
        IF ~IsObjectId(req[q].id) \/ FindById(Alumni, req[q].id) = NoDoc
        THEN Respond(@, Res(404, "Alumni not found", "", {}, NoDoc))
        ELSE [@ EXCEPT !.pc = "d_deleteOne"]]
  /\ UNCHANGED <<Alumni, nextId, uploads, list, now>>

\* A delete that empties the collection.
DeleteMany(q) ==
  /\ req[q].pc = "d_deleteOne"
  /\ Alumni' = {}
  /\ req' = [req EXCEPT ![q] = Respond(@, Res(200, "Alumni removed", "", {}, NoDoc))]
  /\ UNCHANGED <<nextId, uploads, list, now>>

\* await Alumni.deleteOne({ _id: req.params.id })
DeleteOne(q) ==
  /\ req[q].pc = "d_deleteOne"
  /\ Alumni' = {d \in Alumni : d._id # req[q].id}
  /\ req' = [req EXCEPT ![q] = Respond(@, Res(200, "Alumni removed", "", {}, NoDoc))]
  /\ UNCHANGED <<nextId, uploads, list, now>>

-----------------------------------------------------------------------------
(* GET /api/alumni *)

\* Number.parseInt of a query-string value: the digits it starts with, or
\* NaN.
NaN == [nan |-> TRUE, n |-> 0]
Num(n) == [nan |-> FALSE, n |-> n]

ParseInt(v) ==
  CASE v = "0"  -> Num(0)
    [] v = "1"  -> Num(1)
    [] v = "2"  -> Num(2)
    [] v = "3"  -> Num(3)
    [] v = "4"  -> Num(4)
    [] v = "-1" -> Num(0 - 1)
    [] v = "2nd" -> Num(2)
    [] OTHER    -> NaN

\* Math.floor(total / limit)
FloorDiv(total, limit) == total \div limit

\* Number.parseInt(v) || fallback: NaN and 0 are falsy
ParseIntOr(v, fallback) ==
  IF ParseInt(v).nan \/ ParseInt(v).n = 0 THEN fallback ELSE ParseInt(v).n

\* Math.ceil(total / limit), for a limit above 0
CeilDiv(total, limit) == (total + limit - 1) \div limit

\* { $regex: pattern, $options: "i" } on a program
RegexMatchesI(pattern, program) ==
  CASE pattern = "tech"   -> program \in {"B.Tech CS", "M.Tech"}
    [] pattern = "m.tech" -> program = "M.Tech"
    [] pattern = "b.tech cs" -> program = "B.Tech CS"
    [] OTHER              -> FALSE

\* The filter object the handler builds from the query string.
ListFilter(query) ==
  [academicUnit |-> HSST,
   passingYear |-> IF ~Falsy(query.passingYear) /\ query.passingYear # "all"
                   THEN query.passingYear ELSE Absent,
   program |-> IF ~Falsy(query.program) THEN query.program ELSE Absent]

\* The document matches the filter.
Matches(d, filter) ==
  /\ d.academicUnit = filter.academicUnit
  /\ filter.passingYear = Absent \/ d.passingYear = filter.passingYear
  /\ filter.program = Absent \/ RegexMatchesI(filter.program, d.program)

\* Alumni.countDocuments(filter)
CountDocuments(coll, filter) == Cardinality({d \in coll : Matches(d, filter)})

\* The orders in which find(filter).sort({ createdAt: -1 }) can return the
\* documents: newest first, documents of one createdAt in any order.
FindSorted(coll, filter) ==
  LET found == {d \in coll : Matches(d, filter)}
      n == Cardinality(found)
  IN {s \in [1..n -> found] :
        /\ \A i, j \in 1..n : i < j => s[i] # s[j] /\ s[i].createdAt >= s[j].createdAt}

\* .skip(skip).limit(limit) of a result
SkipLimit(s, skip, limit) ==
  SubSeq(s, skip + 1, IF skip + limit < Len(s) THEN skip + limit ELSE Len(s))

EmptyQuery ==
  [page |-> Absent, limit |-> Absent, academicUnit |-> Absent, passingYear |-> Absent,
   program |-> Absent]

NoPagination == [total |-> 0, page |-> 0, limit |-> 0, totalPages |-> 0]

ListRes(status, message, data, pagination) ==
  [status |-> status, message |-> message, data |-> data, pagination |-> pagination]

IdleList ==
  [pc |-> "idle", query |-> EmptyQuery, page |-> 0, limit |-> 0, skip |-> 0, total |-> 0,
   res |-> ListRes(0, "", <<>>, NoPagination)]

\* The response is sent: the query and the response remain.
ListRespond(l, res) == [l EXCEPT !.pc = "done", !.page = 0, !.limit = 0, !.skip = 0,
                                 !.total = 0, !.res = res]

\* A GET /api/alumni arrives: page, limit and skip are computed.
ReceiveList(query) ==
  /\ list.pc = "idle"
  /\ LET page == ParseIntOr(query.page, 1)
         limit == ParseIntOr(query.limit, 10)
     IN list' = [IdleList EXCEPT !.pc = "l_count", !.query = query, !.page = page,
                                 !.limit = limit, !.skip = (page - 1) * limit]
  /\ UNCHANGED <<Alumni, nextId, uploads, req, now>>

\* const total = await Alumni.countDocuments(filter)
ListCount ==
  /\ list.pc = "l_count"
  /\ list' = [list EXCEPT !.pc = "l_find",
                          !.total = CountDocuments(Alumni, ListFilter(list.query))]
  /\ UNCHANGED <<Alumni, nextId, uploads, req, now>>

\* const alumni = await Alumni.find(filter).sort({ createdAt: -1 }).skip(skip).limit(limit),
\* res.json({ data, pagination }), and the catch around them: the store
\* turns down a skip below 0
ListFind ==
  /\ list.pc = "l_find"
  /\ IF list.skip < 0
     THEN list' = ListRespond(list, ListRes(500, "Server error", <<>>, NoPagination))
     ELSE \E s \in FindSorted(Alumni, ListFilter(list.query)) :
            list' = ListRespond(list,
              ListRes(200, "", SkipLimit(s, list.skip, list.limit),
                      [total |-> list.total, page |-> list.page, limit |-> list.limit,
                       totalPages |-> CeilDiv(list.total, list.limit)]))
  /\ UNCHANGED <<Alumni, nextId, uploads, req, now>>

-----------------------------------------------------------------------------
(* The clock *)

\* A millisecond passes.
Tick ==
  /\ now < MaxClock
  /\ now' = now + 1
  /\ UNCHANGED <<Alumni, nextId, uploads, req, list>>

-----------------------------------------------------------------------------
(* What clients send *)

RegNumbers == {"REG-001", "REG-002"}

\* The :id values of PUT and DELETE requests; 0 is a string that is no ObjectId.
TargetIds == {1, 2}

\* A token as routes/auth.js of the nested-payload revision signs it, for
\* an admin account.
AdminToken == NestedToken("u1", "admin")

Scalars(name, program, passingYear, registrationNumber) ==
  [EmptyBody EXCEPT !.name = name, !.program = program, !.passingYear = passingYear,
                    !.registrationNumber = registrationNumber]

\* Requests of the concurrent specification: creates, updates that set
\* the registration number or the name, deletes, and an update and a
\* delete whose :id is no ObjectId.
Inputs ==
  {Input("create", AdminToken, 0, Scalars("Jane Doe", "B.Tech CS", "2019-20", r), {}) :
     r \in RegNumbers}
  \cup
  {Input("update", AdminToken, i, Scalars(Absent, Absent, Absent, r), {}) :
     i \in TargetIds, r \in RegNumbers}
  \cup
  {Input("update", AdminToken, i, Scalars("Jane Roe", Absent, Absent, Absent), {}) :
     i \in TargetIds}
  \cup
  {Input("delete", AdminToken, i, EmptyBody, {}) : i \in TargetIds}
  \cup
  {Input("update", AdminToken, 0, Scalars("Jane Roe", Absent, Absent, Absent), {}),
   Input("delete", AdminToken, 0, EmptyBody, {})}

\* Requests of the create race: creates that pass validation.
RaceInputs ==
  {Input("create", AdminToken, 0, Scalars("Jane Doe", "B.Tech CS", "2019-20", r), {}) :
     r \in RegNumbers}

ContactOpts ==
  {NotSent(EmptyContact),
   AsObject([email |-> "jane@example.org", phone |-> "111", address |-> "Dehradun"]),
   AsJson([EmptyContact EXCEPT !.phone = "222"]),
   BadJson(EmptyContact)}

ExamsOpts ==
  {NotSent(EmptyExams),
   AsJson([examName |-> "GATE", rollNumber |-> "R1", certificateUrl |-> "url/cert"]),
   AsObject([EmptyExams EXCEPT !.rollNumber = "R2"]),
   AsObject([EmptyExams EXCEPT !.certificateUrl = ""]),
   BadJson(EmptyExams)}

EmploymentOpts ==
  {NotSent(EmptyEmployment),
   AsObject([EmptyEmployment EXCEPT !.type = "Employed", !.employerName = "Acme"]),
   AsObject([EmptyEmployment EXCEPT !.type = "Unemployed"]),
   AsJson([EmptyEmployment EXCEPT !.type = "Employed", !.documentUrl = "url/offer"]),
   AsObject([EmptyEmployment EXCEPT !.type = "Retired"]),
   BadJson(EmptyEmployment)}

HigherEdOpts ==
  {NotSent(EmptyHigherEd),
   AsObject([institutionName |-> "IIT", programName |-> "M.Tech", documentUrl |-> "url/admit"]),
   AsJson([EmptyHigherEd EXCEPT !.programName = "PhD"]),
   BadJson(EmptyHigherEd)}

\* Bodies that send at most one nested section on top of the scalars of b.
NestedBodies(b) ==
  {[b EXCEPT !.contactDetails = v] : v \in ContactOpts}
  \cup {[b EXCEPT !.qualifiedExams = v] : v \in ExamsOpts}
  \cup {[b EXCEPT !.employment = v] : v \in EmploymentOpts}
  \cup {[b EXCEPT !.higherEducation = v] : v \in HigherEdOpts}

FileOpts == {{}, {"qualificationImage"}, {"basicInfoImage"}, FileFields}

\* The creates of the one-at-a-time specification: every required scalar
\* sent, missing or empty; nested sections and files.
SeqCreates ==
  {Input("create", AdminToken, 0, Scalars(n, p, y, r), {}) :
     n \in {"Jane Doe", Absent}, p \in {"B.Tech CS", ""}, y \in {"2019-20", Absent},
     r \in {"REG-001", "", Absent}}
  \cup
  {Input("create", AdminToken, 0, b, f) :
     b \in NestedBodies(Scalars("Jane Doe", "B.Tech CS", "2019-20", "REG-001")), f \in FileOpts}
  \cup
  {Input("create", AdminToken, 0,
         [Scalars("Jane Doe", "B.Tech CS", "2019-20", "REG-001") EXCEPT
            !.academicUnit = "School of Management"], {})}

\* Its updates, of the record the create stores.
SeqUpdates ==
  {Input("update", AdminToken, 1, b, f) : b \in NestedBodies(EmptyBody), f \in FileOpts}
  \cup
  {Input("update", AdminToken, 1, Scalars(n, Absent, "", r), {}) :
     n \in {"Jane Roe", ""}, r \in {Absent, "REG-002"}}
  \cup
  {Input("update", AdminToken, 1, Scalars("", "", "", ""), {})}
  \cup
  {Input("update", AdminToken, 1,
         [Scalars(Absent, p, Absent, Absent) EXCEPT !.academicUnit = "School of Management"],
         {}) : p \in {Absent, "M.Tech"}}

\* The Authorization headers of the access specification: none, rejected
\* by jwt.verify, a flat token of an admin account, nested tokens of an
\* admin and of a plain user, and a nested token without an id.
AuthTokens ==
  {NoToken, BadToken, ExpiredToken, FlatToken("u2", "admin"), NestedToken("u1", "admin"),
   NestedToken("u2", "user"), NestedToken(Absent, "admin")}

\* The headers that protect tells apart by the route they reach it on.
RouteTokens == AuthTokens \ {ExpiredToken, NestedToken(Absent, "admin")}

\* Its requests: a create with a file under every header; an update that
\* carries a new registration number and a createdBy, and a delete.
AuthInputs ==
  {Input("create", t, 0, Scalars("Jane Doe", "B.Tech CS", "2019-20", "REG-001"),
         {"basicInfoImage"}) : t \in AuthTokens}
  \cup
  {Input("update", t, 1,
         [Scalars("Jane Roe", Absent, Absent, "REG-002") EXCEPT !.createdBy = "u9"],
         {"employmentImage"}) : t \in RouteTokens}
  \cup
  {Input("delete", t, 1, EmptyBody, {}) : t \in RouteTokens}

\* The requests of the timestamp specification: a create, updates of the
\* record it stores that set the name, the program or the registration
\* number, and an update of a record that is not stored.
TimeInputs ==
  {Input("create", AdminToken, 0, Scalars("Jane Doe", "B.Tech CS", "2019-20", "REG-001"), {}),
   Input("update", AdminToken, 1, Scalars("Jane Roe", Absent, Absent, Absent), {}),
   Input("update", AdminToken, 1, Scalars(Absent, "M.Tech", Absent, Absent), {}),
   Input("update", AdminToken, 1, Scalars(Absent, Absent, Absent, "REG-002"), {}),
   Input("update", AdminToken, 2, Scalars("Jane Roe", Absent, Absent, Absent), {})}

\* The requests of the file specification: creates with files that are
\* stored, fail validation or fail the schema; updates with files; deletes.
FilesInputs ==
  {Input("create", AdminToken, 0, Scalars("Jane Doe", "B.Tech CS", "2019-20", "REG-001"),
         {"qualificationImage", "employmentImage"}),
   Input("create", AdminToken, 0, Scalars("John Roe", "M.Tech", "2019-20", "REG-002"),
         {"basicInfoImage"}),
   Input("create", AdminToken, 0, Scalars("", "B.Tech CS", "2019-20", "REG-001"),
         {"basicInfoImage"}),
   Input("create", AdminToken, 0,
         [Scalars("John Roe", "M.Tech", "2019-20", "REG-002") EXCEPT
            !.employment = AsObject([EmptyEmployment EXCEPT !.type = "Retired"])],
         {"employmentImage"}),
   Input("update", AdminToken, 1, Scalars(Absent, Absent, Absent, "REG-002"),
         {"employmentImage"}),
   Input("update", AdminToken, 2, Scalars("Jane Roe", Absent, Absent, Absent),
         {"qualificationImage"}),
   Input("delete", AdminToken, 1, EmptyBody, {}),
   Input("delete", AdminToken, 2, EmptyBody, {})}

\* The creates of the listing specification: records of two passing years
\* and two programs.
ListCreates ==
  {Input("create", AdminToken, 0, Scalars("Jane Doe", "B.Tech CS", "2019-20", "REG-001"), {}),
   Input("create", AdminToken, 0, Scalars("John Roe", "M.Tech", "2019-20", "REG-002"), {}),
   Input("create", AdminToken, 0, Scalars("Asha Rao", "B.Tech CS", "2020-21", "REG-003"), {}),
   Input("create", AdminToken, 0, Scalars("Ravi Kumar", "M.Tech", "2020-21", "REG-004"), {})}

Query(page, limit, academicUnit, passingYear, program) ==
  [page |-> page, limit |-> limit, academicUnit |-> academicUnit, passingYear |-> passingYear,
   program |-> program]

\* The query strings of GET /api/alumni: pages and page sizes with and
\* without a passing year, and the filters with the default page.
Queries ==
  {Query(p, l, Absent, y, Absent) :
     p \in {"1", "2", "3"}, l \in {"1", "2"}, y \in {Absent, "2019-20"}}
  \cup
  {Query(p, l, Absent, Absent, Absent) :
     p \in {Absent, "0", "-1", "2nd"}, l \in {Absent, "2"}}
  \cup
  {Query(Absent, Absent, a, y, Absent) :
     a \in {HSST, "School of Management"}, y \in {Absent, "2020-21"}}
  \cup
  {Query(Absent, Absent, Absent, y, Absent) : y \in {"all", "", "2021-22"}}
  \cup
  {Query(Absent, l, Absent, Absent, g) : l \in {Absent, "1"}, g \in {"tech", "m.tech", "mba"}}

-----------------------------------------------------------------------------
(* Specifications *)

Init ==
  /\ Alumni = {}
  /\ nextId = 1
  /\ uploads = {}
  /\ req = [q \in Slots |-> IdleReq]
  /\ list = IdleList
  /\ now = 1

\* Any client request arrives, at any time.
ReceiveAny(q) == \E in \in Inputs : Receive(q, in)

\* A create arrives, at any time.
ReceiveCreate(q) == \E in \in RaceInputs : Receive(q, in)

\* A create and then updates arrive, each while no other request is being
\* handled.
ReceiveSeq(q) ==
  /\ q <= MaxSeqRequests
  /\ \A p \in Slots : ~InFlight(p)
  /\ \E in \in (IF q = 1 THEN SeqCreates ELSE SeqUpdates) : Receive(q, in)

Next ==
  \E q \in Slots :
    \/ ReceiveAny(q)
    \/ CreateFindOne(q)
    \/ CreateSave(q)
    \/ UpdateFindById(q)
    \/ UpdateFindOne(q)
    \/ UpdateWrite(q)
    \/ DeleteFindById(q)
    \/ DeleteOne(q)

Spec == Init /\ [][Next]_vars

NextRace ==
  \E q \in Slots :
    \/ ReceiveCreate(q)
    \/ CreateFindOne(q)
    \/ CreateSave(q)

SpecRace == Init /\ [][NextRace]_vars

NextSeq ==
  \E q \in Slots :
    \/ ReceiveSeq(q)
    \/ CreateFindOne(q)
    \/ CreateSave(q)
    \/ UpdateFindById(q)
    \/ UpdateFindOne(q)
    \/ UpdateWrite(q)

SpecSeq == Init /\ [][NextSeq]_vars

\* A request arrives under any Authorization header, at any time.
ReceiveAuth(q) == \E in \in AuthInputs : Receive(q, in)

NextAuth ==
  \E q \in Slots :
    \/ ReceiveAuth(q)
    \/ CreateFindOne(q)
    \/ CreateSave(q)
    \/ UpdateFindById(q)
    \/ UpdateFindOne(q)
    \/ UpdateWrite(q)
    \/ DeleteFindById(q)
    \/ DeleteOne(q)

SpecAuth == Init /\ [][NextAuth]_vars

\* A request arrives while no other is being handled.
ReceiveTime(q) ==
  /\ \A p \in Slots : ~InFlight(p)
  /\ \E in \in TimeInputs : Receive(q, in)

NextTime ==
  \/ Tick
  \/ \E q \in Slots :
       \/ ReceiveTime(q)
       \/ CreateFindOne(q)
       \/ CreateSave(q)
       \/ UpdateFindById(q)
       \/ UpdateFindOne(q)
       \/ UpdateWrite(q)

SpecTime == Init /\ [][NextTime]_vars

\* A request with or without files arrives, at any time.
ReceiveFiles(q) == \E in \in FilesInputs : Receive(q, in)

NextFiles ==
  \E q \in Slots :
    \/ ReceiveFiles(q)
    \/ CreateFindOne(q)
    \/ CreateSave(q)
    \/ UpdateFindById(q)
    \/ UpdateFindOne(q)
    \/ UpdateWrite(q)
    \/ DeleteFindById(q)
    \/ DeleteOne(q)

SpecFiles == Init /\ [][NextFiles]_vars

\* A create arrives while no other is being handled and before the first
\* GET /api/alumni: the store is filled, then listed.
ReceiveListCreate(q) ==
  /\ \A p \in Slots : ~InFlight(p)
  /\ list.pc = "idle"
  /\ \E in \in ListCreates : Receive(q, in)

\* A GET /api/alumni arrives while no write is being handled.
ReceiveListQuery ==
  /\ \A p \in Slots : ~InFlight(p)
  /\ \E query \in Queries : ReceiveList(query)

NextList ==
  \/ Tick
  \/ ReceiveListQuery
  \/ ListCount
  \/ ListFind
  \/ \E q \in Slots :
       \/ ReceiveListCreate(q)
       \/ CreateFindOne(q)
       \/ CreateSave(q)

SpecList == Init /\ [][NextList]_vars

-----------------------------------------------------------------------------
(* Properties *)

Done(q) == req[q].pc = "done"

\* Request q takes the step it is waiting to take at pc.
Steps(q, pc) == req[q].pc = pc /\ req'[q].pc # pc

DuplicateMessage == "Alumni with this registration number already exists"

\* C1: in every reachable state, whatever creates, updates and deletes
\* have interleaved, no two stored records have the same registrationNumber.
C1_UniqueRegistrationNumber ==
  \A d1, d2 \in Alumni : d1.registrationNumber = d2.registrationNumber => d1 = d2

\* Two records are stored and the index has turned down an update that
\* had passed its own look-up.
C1_Witness ==
  /\ Cardinality(Alumni) = 2
  /\ \E q \in Slots :
       /\ Done(q) /\ req[q].kind = "update"
       /\ req[q].res.detail = "E11000 duplicate key error"

\* The creates that carry the registration number r, and those that
\* were answered with the new record.
Carrying(r) == {q \in Slots : req[q].kind = "create" /\ req[q].body.registrationNumber = r}
Winners(r) == {q \in Carrying(r) : Done(q) /\ req[q].res.status = 200}

\* C2: of the concurrent creates that carry one registration number, at
\* most one is answered with success, as many records with that number
\* are stored as creates succeeded, and once all of them are answered
\* exactly one has succeeded.
C2_OneCreateWins ==
  \A r \in RegNumbers :
    /\ Cardinality(Winners(r)) <= 1
    /\ Cardinality({d \in Alumni : d.registrationNumber = r}) = Cardinality(Winners(r))
    /\ (Carrying(r) # {} /\ \A q \in Carrying(r) : Done(q)) => Cardinality(Winners(r)) = 1

\* Three creates carried the same number, all are answered, and two of
\* them had passed the look-up before the winner's insert.
C2_Witness ==
  \E r \in RegNumbers :
    /\ Cardinality(Carrying(r)) = 3
    /\ \A q \in Carrying(r) : Done(q)
    /\ Cardinality({q \in Carrying(r) : req[q].res.status = 500}) = 2

\* C3: when the unique index turns down the write of a create or of an
\* update, the caller is answered 400 (DuplicateKey), not 500.
C3_IndexRejectionIsDuplicateKey ==
  [][\A q \in Slots :
       \/ /\ Steps(q, "c_save")
          /\ \E d \in Alumni : d.registrationNumber = req[q].body.registrationNumber
       \/ /\ Steps(q, "u_update")
          /\ \E d \in Alumni : d._id = req[q].id
          /\ ~Falsy(req[q].body.registrationNumber)
          /\ \E d \in Alumni :
               d._id # req[q].id /\ d.registrationNumber = req[q].body.registrationNumber
       => req'[q].res.status = 400]_vars

\* C4: a create whose look-up finds a stored record with its registration
\* number is answered 400 with the duplicate message, and the collection
\* is left as it was.
C4_DuplicateCreateRejected ==
  [][\A q \in Slots :
       /\ Steps(q, "c_findOne")
       /\ \E d \in Alumni : d.registrationNumber = req[q].body.registrationNumber
       => /\ req'[q].pc = "done"
          /\ req'[q].res.status = 400
          /\ req'[q].res.message = DuplicateMessage
          /\ Alumni' = Alumni]_vars

\* A create was turned down by the look-up while the record it collided
\* with is stored.
C4_Witness ==
  \E q \in Slots :
    /\ Done(q) /\ req[q].kind = "create"
    /\ req[q].res.status = 400 /\ req[q].res.message = DuplicateMessage
    /\ \E d \in Alumni : d.registrationNumber = req[q].body.registrationNumber

\* The nested sections, their sub-fields other than the document URL, and
\* the document URL of the three sections that have one.
Sections == {"contactDetails", "qualifiedExams", "employment", "higherEducation"}

PlainFields(sec) ==
  CASE sec = "contactDetails"  -> {"email", "phone", "address"}
    [] sec = "qualifiedExams"  -> {"examName", "rollNumber"}
    [] sec = "employment"      -> {"type", "employerName", "employerContact", "employerEmail",
                                   "selfEmploymentDetails"}
    [] sec = "higherEducation" -> {"institutionName", "programName"}

UrlSections == {"qualifiedExams", "employment", "higherEducation"}

UrlField(sec) == IF sec = "qualifiedExams" THEN "certificateUrl" ELSE "documentUrl"

\* The file parts uploaded for a section's document: the qualification
\* image for qualifiedExams, the employment image for employment; no part
\* is a document of higherEducation.
DocumentFiles(sec) ==
  CASE sec = "qualifiedExams"  -> {"qualificationImage"}
    [] sec = "employment"      -> {"employmentImage"}
    [] sec = "higherEducation" -> {}

UploadedUrl(sec) ==
  CASE sec = "qualifiedExams" -> "cloud/qualificationImage"
    [] sec = "employment"     -> "cloud/employmentImage"
    [] OTHER                  -> ""

\* The section is sent and parses to an object.
SentObject(v) == v.form \in {"object", "json"}

\* The stored document with _id id before and after a step.
Before(id) == CHOOSE d \in Alumni : d._id = id
After(id) == CHOOSE d \in Alumni' : d._id = id

\* Request q's update writes the document it targets.
UpdateWrites(q) ==
  /\ Steps(q, "u_update")
  /\ req'[q].res.status = 200
  /\ \E d \in Alumni : d._id = req[q].id
  /\ \E d \in Alumni' : d._id = req[q].id

\* C5: an update that sends a nested section with only some of its
\* sub-fields sets those and leaves every sub-field it omits at the value
\* stored before.
C5_PartialNestedUpdate ==
  [][\A q \in Slots :
       UpdateWrites(q) =>
         \A sec \in Sections :
           SentObject(req[q].body[sec]) =>
             \A f \in PlainFields(sec) :
               After(req[q].id)[sec][f] =
                 IF req[q].body[sec].obj[f] # Absent
                 THEN req[q].body[sec].obj[f]
                 ELSE Before(req[q].id)[sec][f]]_vars

\* C6: after an update each document URL is the URL of the file uploaded
\* for it in this request, else the URL the payload supplies, else the
\* URL stored before.
C6_UpdateUrlPrecedence ==
  [][\A q \in Slots :
       UpdateWrites(q) =>
         \A sec \in UrlSections :
           After(req[q].id)[sec][UrlField(sec)] =
             IF DocumentFiles(sec) \cap req[q].files # {}
             THEN UploadedUrl(sec)
             ELSE IF SentObject(req[q].body[sec])
                     /\ req[q].body[sec].obj[UrlField(sec)] \notin {Absent, ""}
                  THEN req[q].body[sec].obj[UrlField(sec)]
                  ELSE Before(req[q].id)[sec][UrlField(sec)]]_vars

\* C7: each document URL of a created record is the URL of the file
\* uploaded for it, else the value in the parsed payload section, else the
\* empty string.
C7_CreateUrlPrecedence ==
  [][\A q \in Slots :
       Steps(q, "c_save") /\ req'[q].res.status = 200 =>
         \A sec \in UrlSections :
           req'[q].res.data[sec][UrlField(sec)] =
             IF DocumentFiles(sec) \cap req[q].files # {}
             THEN UploadedUrl(sec)
             ELSE IF SentObject(req[q].body[sec])
                     /\ req[q].body[sec].obj[UrlField(sec)] # Absent
                  THEN req[q].body[sec].obj[UrlField(sec)]
                  ELSE ""]_vars

RequiredFields == {"name", "program", "passingYear", "registrationNumber"}

\* The request carries a token that protect accepts.
Authenticated(r) == r.token.fmt \in {"flat", "nested"} /\ r.token.id \notin {Absent, Null, ""}

\* C8: an authenticated create with a required scalar field missing or
\* empty is answered 400 with the validation errors, goes no further and
\* stores nothing.
C8_MissingRequiredFieldRejected ==
  [][\A q \in Slots :
       /\ req[q].pc = "idle" /\ req'[q].pc # "idle"
       /\ req'[q].kind = "create"
       /\ Authenticated(req'[q])
       /\ \E f \in RequiredFields : req'[q].body[f] \in {Absent, ""}
       => /\ req'[q].pc = "done"
          /\ req'[q].res.status = 400
          /\ req'[q].res.errors = {f \in RequiredFields : req'[q].body[f] \in {Absent, ""}}
          /\ Alumni' = Alumni]_vars

\* A create with an empty registrationNumber and every other field filled
\* was turned down, and nothing is stored.
C8_Witness ==
  \E q \in Slots :
    /\ Done(q) /\ req[q].kind = "create"
    /\ req[q].body.registrationNumber = "" /\ req[q].body.name = "Jane Doe"
    /\ req[q].body.program = "B.Tech CS" /\ req[q].body.passingYear = "2019-20"
    /\ req[q].res.status = 400 /\ req[q].res.errors = {"registrationNumber"}
    /\ Alumni = {}

\* C9: an update whose id is the _id of no stored record is answered 404,
\* and the collection is left as it was.
C9_UpdateOfUnknownIdNotFound ==
  [][\A q \in Slots :
       /\ Steps(q, "u_findById")
       /\ ~\E d \in Alumni : d._id = req[q].id
       => /\ req'[q].pc = "done"
          /\ req'[q].res.status = 404
          /\ Alumni' = Alumni]_vars

\* An update of an id that is not stored was answered 404 while another
\* record is stored.
C9_Witness ==
  \E q \in Slots :
    /\ Done(q) /\ req[q].kind = "update" /\ req[q].res.status = 404
    /\ Alumni # {}
    /\ ~\E d \in Alumni : d._id = req[q].id

\* C10: an update that carries a registrationNumber other than its
\* target's and equal to that of another stored record is answered 400
\* with the duplicate message, and the collection is left as it was.
C10_UpdateToTakenNumberRejected ==
  [][\A q \in Slots :
       /\ Steps(q, "u_findOne")
       /\ \E d \in Alumni :
            d._id = req[q].id /\ d.registrationNumber # req[q].body.registrationNumber
       /\ \E d \in Alumni :
            d._id # req[q].id /\ d.registrationNumber = req[q].body.registrationNumber
       => /\ req'[q].pc = "done"
          /\ req'[q].res.status = 400
          /\ req'[q].res.message = DuplicateMessage
          /\ Alumni' = Alumni]_vars

\* An update was turned down as a duplicate; its target and the record
\* that has the number it asked for are both stored.
C10_Witness ==
  \E q \in Slots :
    /\ Done(q) /\ req[q].kind = "update"
    /\ req[q].res.status = 400 /\ req[q].res.message = DuplicateMessage
    /\ \E d \in Alumni :
         d._id = req[q].id /\ d.registrationNumber # req[q].body.registrationNumber
    /\ \E d \in Alumni :
         d._id # req[q].id /\ d.registrationNumber = req[q].body.registrationNumber

\* C11: a delete whose id is the _id of no stored record, be it because
\* an earlier delete removed the record, is answered 404 and not with
\* success, and the collection is left as it was.
C11_DeleteOfUnknownIdNotFound ==
  [][\A q \in Slots :
       /\ Steps(q, "d_findById")
       /\ ~\E d \in Alumni : d._id = req[q].id
       => /\ req'[q].pc = "done"
          /\ req'[q].res.status = 404
          /\ req'[q].res.message = "Alumni not found"
          /\ Alumni' = Alumni]_vars

\* A delete was answered 404 for the id of a record that an earlier
\* delete had removed.
C11_Witness ==
  \E q, p \in Slots :
    /\ Done(q) /\ req[q].kind = "delete" /\ req[q].res.status = 404
    /\ Done(p) /\ req[p].kind = "delete" /\ req[p].res.status = 200
    /\ req[p].id = req[q].id
    /\ ~\E d \in Alumni : d._id = req[q].id

\* The page numbers and page sizes from 1 up, as query strings.
Numerals == <<"1", "2", "3", "4">>
IsNumeral(v) == \E i \in 1..Len(Numerals) : Numerals[i] = v
NumeralValue(v) == CHOOSE i \in 1..Len(Numerals) : Numerals[i] = v

\* The GET /api/alumni being served takes its find step and answers.
ListAnswers == list.pc = "l_find" /\ list'.pc = "done"

\* The query names a value to filter on.
FiltersOn(v) == v \notin {Absent, "", "all"}

\* The stored records that match the filters the query gives.
Selected(query) ==
  {d \in Alumni :
     /\ FiltersOn(query.academicUnit) => d.academicUnit = query.academicUnit
     /\ FiltersOn(query.passingYear) => d.passingYear = query.passingYear
     /\ FiltersOn(query.program) => RegexMatchesI(query.program, d.program)}

C20_EqualityFilters ==
  [][ListAnswers /\ list'.res.status = 200
     => /\ \A i \in 1..Len(list'.res.data) :
             /\ FiltersOn(list.query.academicUnit) =>
                  list'.res.data[i].academicUnit = list.query.academicUnit
             /\ FiltersOn(list.query.passingYear) =>
                  list'.res.data[i].passingYear = list.query.passingYear
        /\ list'.res.pagination.total = Cardinality(Selected(list.query))]_vars

\* C13: a create, update or delete that carries no valid token is
\* answered 401 on arrival and never reaches its handler: the step that
\* receives it leaves the collection and the file storage as they were,
\* and it takes no other step.
C13_UnauthenticatedRefused ==
  [][\A q \in Slots :
       req'[q].pc # "idle" /\ ~Authenticated(req'[q])
       => /\ req'[q].pc = "done"
          /\ req'[q].res.status = 401
          /\ req[q].pc = "idle" => Alumni' = Alumni /\ uploads' = uploads]_vars

\* A record is stored, and an update of it without a token and a delete
\* of it with a token that does not verify were both answered 401.
C13_Witness ==
  \E q, p \in Slots :
    /\ Done(q) /\ req[q].kind = "update" /\ req[q].token = NoToken
    /\ req[q].res.status = 401
    /\ Done(p) /\ req[p].kind = "delete" /\ req[p].token = BadToken
    /\ req[p].res.status = 401
    /\ \E d \in Alumni : d._id = req[q].id /\ d._id = req[p].id /\ d.name = "Jane Doe"

\* C14: a delete by an authenticated caller whose role is not admin is
\* refused on arrival with the collection left as it was, and whenever a
\* record leaves the collection the step is the deleteOne of a request
\* whose token is valid and carries the role admin.
C14_DeleteNeedsAdmin ==
  [][/\ \A q \in Slots :
          /\ req[q].pc = "idle" /\ req'[q].pc # "idle"
          /\ req'[q].kind = "delete"
          /\ Authenticated(req'[q]) /\ req'[q].token.role # "admin"
          => /\ req'[q].pc = "done"
             /\ req'[q].res.status = 401
             /\ Alumni' = Alumni
     /\ (\E d \in Alumni : ~\E e \in Alumni' : e._id = d._id)
          => \E q \in Slots :
               /\ Steps(q, "d_deleteOne")
               /\ Authenticated(req[q]) /\ req[q].token.role = "admin"]_vars

\* A delete by a plain user was refused while the record it names is
\* stored.
C14_Witness ==
  \E q \in Slots :
    /\ Done(q) /\ req[q].kind = "delete"
    /\ Authenticated(req[q]) /\ req[q].token.role = "user"
    /\ req[q].res.status = 401 /\ req[q].res.message = "Not authorized as an admin"
    /\ \E d \in Alumni : d._id = req[q].id

\* C18: a record is stored with createdBy equal to the id of the caller
\* whose create stored it, and no step, of an update by any caller with
\* any payload or of anything else, changes the createdBy of a stored
\* record.
C18_CreatedByIsTheCreator ==
  [][/\ \A q \in Slots :
          Steps(q, "c_save") /\ req'[q].res.status = 200
          => /\ req'[q].res.data.createdBy = req[q].token.id
             /\ req'[q].res.data \in Alumni'
     /\ \A d \in Alumni : \A e \in Alumni' :
          e._id = d._id => e.createdBy = d.createdBy]_vars

\* A record created by u1 was updated by u2 with a payload that names
\* another creator, and is stored with the new name and createdBy u1.
C18_Witness ==
  \E q, p \in Slots :
    /\ Done(q) /\ req[q].kind = "create" /\ req[q].token.id = "u1"
    /\ req[q].res.status = 200
    /\ Done(p) /\ req[p].kind = "update" /\ req[p].token.id = "u2"
    /\ req[p].body.createdBy = "u9" /\ req[p].res.status = 200
    /\ req[p].id = req[q].res.data._id
    /\ \E d \in Alumni : d._id = req[p].id /\ d.name = "Jane Roe" /\ d.createdBy = "u1"

ScalarFields == {"name", "academicUnit", "program", "passingYear", "registrationNumber"}

\* C15: after an update every top-level scalar field that the payload
\* carries with a value has the payload's value, and every one it omits
\* has the value stored before.
C15_ScalarUpdate ==
  [][\A q \in Slots :
       UpdateWrites(q) =>
         \A f \in ScalarFields :
           After(req[q].id)[f] =
             IF req[q].body[f] \notin {Absent, ""}
             THEN req[q].body[f]
             ELSE Before(req[q].id)[f]]_vars

\* C16: an update that sends a nested section as a string that is not
\* JSON leaves the sub-fields of that section at the values stored before.
C16_MalformedSectionKept ==
  [][\A q \in Slots :
       UpdateWrites(q) =>
         \A sec \in Sections :
           req[q].body[sec].form = "badjson" =>
             \A f \in PlainFields(sec) :
               After(req[q].id)[sec][f] = Before(req[q].id)[sec][f]]_vars

\* The request sends a nested section as a string that is not JSON.
SendsMalformed(r) == \E sec \in Sections : r.body[sec].form = "badjson"

\* C17: a request that sends a nested section as malformed JSON is never
\* answered with an error of its own (400 or 500): the save of such a
\* create, valid otherwise, answers 200 with the stored record, in which
\* the section has no sub-field set and an empty document URL unless a
\* file was uploaded, and the write of such an update answers 200.
C17_MalformedSectionTolerated ==
  [][\A q \in Slots :
       /\ SendsMalformed(req'[q]) => req'[q].res.status \notin {400, 500}
       /\ Steps(q, "c_save") /\ SendsMalformed(req[q])
          => /\ req'[q].res.status = 200
             /\ req'[q].res.data \in Alumni'
             /\ \A sec \in Sections :
                  req[q].body[sec].form = "badjson" =>
                    /\ \A f \in PlainFields(sec) : req'[q].res.data[sec][f] = Absent
                    /\ sec \in UrlSections /\ req[q].files = {}
                         => req'[q].res.data[sec][UrlField(sec)] = ""
       /\ Steps(q, "u_update") /\ SendsMalformed(req[q])
          => req'[q].res.status = 200]_vars

\* A create that sent employment as malformed JSON stored a record whose
\* employment has no type, and an update of it that sent contactDetails
\* as malformed JSON was answered 200.
C17_Witness ==
  \E q, p \in Slots :
    /\ Done(q) /\ req[q].kind = "create" /\ req[q].body.employment.form = "badjson"
    /\ req[q].res.status = 200 /\ req[q].res.data.employment.type = Absent
    /\ Done(p) /\ req[p].kind = "update" /\ req[p].body.contactDetails.form = "badjson"
    /\ req[p].res.status = 200
    /\ \E d \in Alumni : d._id = req[p].id

C21_DeleteRemovesOnlyItsRecord ==
  [][\A q \in Slots :
       Steps(q, "d_deleteOne") /\ req'[q].res.status = 200
       => /\ Alumni' = {d \in Alumni : d._id # req[q].id}
          /\ uploads' = uploads
          /\ nextId' = nextId /\ list' = list /\ now' = now
          /\ \A p \in Slots : p # q => req'[p] = req[p]]_vars

\* A record stored with an uploaded certificate was deleted: it is gone,
\* another record is stored and the certificate is still in the storage.
C21_Witness ==
  \E q, p \in Slots :
    /\ Done(q) /\ req[q].kind = "delete" /\ req[q].res.status = 200
    /\ Done(p) /\ req[p].kind = "create" /\ req[p].res.status = 200
    /\ req[p].res.data._id = req[q].id
    /\ req[p].res.data.qualifiedExams.certificateUrl = "cloud/qualificationImage"
    /\ "cloud/qualificationImage" \in uploads
    /\ ~\E d \in Alumni : d._id = req[q].id
    /\ Alumni # {}

\* The URLs of the files a request sent.
SentFiles(r) == {FilePath(f) : f \in r.files}

\* C22: when a create or an update issues its record write every file it
\* sent is in the file storage; no step removes a file from the storage;
\* and when an authenticated create or update is answered with a failure
\* the files it sent are in the storage.
C22_UploadsBeforeWriteAndKept ==
  [][/\ uploads \subseteq uploads'
     /\ \A q \in Slots :
          /\ Steps(q, "c_save") \/ Steps(q, "u_update") => SentFiles(req[q]) \subseteq uploads
          /\ /\ req[q].pc # "done" /\ req'[q].pc = "done"
             /\ req'[q].kind \in {"create", "update"}
             /\ Authenticated(req'[q])
             /\ req'[q].res.status >= 400
             => SentFiles(req'[q]) \subseteq uploads']_vars

\* Two creates with files failed, one on the duplicate check and one in
\* the store, and the files of both are in the storage.
C22_Witness ==
  \E p, r \in Slots :
    /\ Done(p) /\ req[p].res.status = 400 /\ req[p].res.message = DuplicateMessage
    /\ Done(r) /\ req[r].res.status = 500
    /\ \A x \in {p, r} :
         req[x].kind = "create" /\ req[x].files # {} /\ SentFiles(req[x]) \subseteq uploads

\* C23: two creates, or two updates, that fail with a 500 receive the
\* same response, whatever the error in the store was.
C23_StorageFailureOpaque ==
  \A q, p \in Slots :
    /\ Done(q) /\ Done(p)
    /\ req[q].kind = req[p].kind /\ req[q].kind \in {"create", "update"}
    /\ req[q].res.status = 500 /\ req[p].res.status = 500
    => req[q].res = req[p].res

\* C24: in the record a create stores and in the record an update writes,
\* an uploaded qualification file is the certificate URL of the qualified
\* exams, an uploaded employment file is the document URL of the
\* employment, and the basic-info image is the document URL of no section.
C24_FileSetsOwnSectionOnly ==
  [][\A q \in Slots :
       LET written(doc) ==
             /\ "qualificationImage" \in req[q].files
                => doc.qualifiedExams.certificateUrl = "cloud/qualificationImage"
             /\ "employmentImage" \in req[q].files
                => doc.employment.documentUrl = "cloud/employmentImage"
             /\ \A sec \in UrlSections : doc[sec][UrlField(sec)] # "cloud/basicInfoImage"
       IN /\ Steps(q, "c_save") /\ req'[q].res.status = 200 => written(req'[q].res.data)
          /\ UpdateWrites(q) => written(After(req[q].id))]_vars

\* C25: a delete that presents the token generateToken signs for an admin
\* account passes protect and admin and goes on to look its record up.
C25_IssuedAdminTokenDeletes ==
  [][\A q \in Slots :
       /\ req[q].pc = "idle" /\ req'[q].pc # "idle"
       /\ req'[q].kind = "delete"
       /\ req'[q].token.fmt = "flat" /\ req'[q].token.role = "admin"
       /\ req'[q].token.id \notin {Absent, Null, ""}
       => req'[q].pc = "d_findById"]_vars

\* C26: an update that finds its target with the registration number its
\* payload carries goes on to the write without the duplicate check; the
\* check is made only for a registration number that differs from the one
\* found; and a write whose payload carries the registration number of
\* the stored target is answered 200 with that registration number kept.
C26_OwnRegistrationNumberAccepted ==
  [][\A q \in Slots :
       LET reg == req[q].body.registrationNumber
           stored == {d \in Alumni : d._id = req[q].id}
       IN /\ Steps(q, "u_findById")
             => /\ (\E d \in stored : d.registrationNumber = reg) => req'[q].pc = "u_update"
                /\ req'[q].pc = "u_findOne"
                   => reg \notin {Absent, Null, ""} /\ \E d \in stored : d.registrationNumber # reg
          /\ Steps(q, "u_update") /\ (\E d \in stored : d.registrationNumber = reg)
             => /\ req'[q].res.status = 200
                /\ req'[q].res.data # NoDoc
                /\ req'[q].res.data.registrationNumber = reg
                /\ \E d \in Alumni' : d._id = req[q].id /\ d.registrationNumber = reg]_vars

\* A record was created and an update that carried the record's own
\* registration number was answered with the record.
C26_Witness ==
  \E q, p \in Slots :
    /\ Done(p) /\ req[p].kind = "create" /\ req[p].res.status = 200
    /\ Done(q) /\ req[q].kind = "update" /\ req[q].res.status = 200
    /\ req[q].id = req[p].res.data._id
    /\ req[q].body.registrationNumber = req[p].res.data.registrationNumber
    /\ req[q].res.data # NoDoc
    /\ req[q].res.data.registrationNumber = req[p].res.data.registrationNumber

\* C27: when the only two updates of a record, one that carried a name
\* and nothing else and one that carried a registration number and
\* nothing else, have both been answered with the record, the stored
\* record has that name and that registration number.
C27_DisjointUpdatesBothKept ==
  \A q, p \in Slots :
    /\ Done(q) /\ req[q].kind = "update" /\ req[q].res.status = 200 /\ req[q].res.data # NoDoc
    /\ Done(p) /\ req[p].kind = "update" /\ req[p].res.status = 200 /\ req[p].res.data # NoDoc
    /\ req[q].id = req[p].id
    /\ req[q].body.name # Absent /\ req[q].body.registrationNumber = Absent
    /\ req[p].body.name = Absent /\ req[p].body.registrationNumber # Absent
    /\ \A x \in Slots \ {q, p} : ~(req[x].kind = "update" /\ req[x].id = req[q].id)
    => \A d \in Alumni :
         d._id = req[q].id
         => d.name = req[q].body.name /\ d.registrationNumber = req[p].body.registrationNumber

\* C28: the write of an update is answered 200 only with the record it
\* wrote, which is then stored; when no record with its id is stored any
\* more it is answered 404; and it stores no record under an id that was
\* not stored.
C28_UpdateOfDeletedNotFound ==
  [][\A q \in Slots :
       Steps(q, "u_update")
       => /\ req'[q].res.status = 200
             => req'[q].res.data # NoDoc /\ req'[q].res.data \in Alumni'
          /\ (~\E d \in Alumni : d._id = req[q].id)
             => req'[q].res.status = 404 /\ Alumni' = Alumni]_vars

\* C29: in every reachable state every stored record has a name, a
\* program, a passing year and a registration number that are not empty.
C29_RequiredFieldsNeverEmpty ==
  \A d \in Alumni : \A f \in RequiredFields : d[f] \notin {Absent, Null, ""}

\* An update that carried the empty string for all four fields was
\* answered with the record, which is stored with the values it had.
C29_Witness ==
  \E q, p \in Slots :
    /\ Done(p) /\ req[p].kind = "create" /\ req[p].res.status = 200
    /\ Done(q) /\ req[q].kind = "update" /\ req[q].res.status = 200
    /\ req[q].id = req[p].res.data._id
    /\ \A f \in RequiredFields : req[q].body[f] = ""
    /\ req[q].res.data \in Alumni
    /\ \A f \in RequiredFields : req[q].res.data[f] = req[p].res.data[f]

\* C30: in every reachable state every stored record has the academic
\* unit "Himalayan School of Science and Technology".
C30_OneAcademicUnit ==
  \A d \in Alumni : d.academicUnit = "Himalayan School of Science and Technology"

\* A create and an update that both named another academic unit were
\* answered with the record, and the record is stored.
C30_Witness ==
  \E q, p \in Slots :
    /\ Done(p) /\ req[p].kind = "create" /\ req[p].res.status = 200
    /\ req[p].body.academicUnit = "School of Management"
    /\ Done(q) /\ req[q].kind = "update" /\ req[q].res.status = 200
    /\ req[q].body.academicUnit = "School of Management"
    /\ req[q].id = req[p].res.data._id
    /\ req[q].res.data \in Alumni

====
